---- MODULE Spec2Model ----
(***************************************************************************)
(* AutoTutor (Node.js): the Lambda handler, the GitHub client (clone,      *)
(* directory walk, ranking, content loading), the Bedrock code analyzer    *)
(* and the S3 uploader, as a state machine.                                *)
(*                                                                         *)
(* Strings the code takes apart (file names, ignore patterns, URLs) are    *)
(* sequences of one-character strings; a relative path is the sequence of  *)
(* its components (path.join puts "/" between them).                       *)
(***************************************************************************)
EXTENDS Integers, Sequences, FiniteSets, TLC

VARIABLES
    \* the environment
    fs,              \* the working tree a successful clone produces: path -> node
    gitignoreFile,   \* the .gitignore at the root of that tree
    event,           \* the request given to the handler
    \* GitHubClient
    repoPath,        \* this.repoPath: "null" or "tmp"
    disk,            \* the temporary directory: "none", "empty", "cloned"
    clientError,     \* the error thrown by the last direct call of the client
    fileStructure,   \* value returned by getFileStructure, or NoValue
    lastWalk,        \* the files, counters and readdir calls of the last walk
    walkedDisk,      \* what the temporary directory was when it was last walked
    previousStructure, \* value returned by the call of getFileStructure before
                     \* the last, when the directory was the same; or NoValue
    mainFiles,       \* value returned by getMainFiles
    rankedDisk,      \* what the temporary directory was when it was last ranked
    rankedFiles,     \* the paths getMainFiles sorted, in the order of its walk
    fileContents,    \* the handler's content map, in insertion order
    readIndex,       \* position of the content loop in mainFiles
    readLog,         \* the calls of readFileContent made, and what they returned
    \* CodeAnalyzer
    tasks,           \* the four analysis calls: "idle", "pending", "ok", "failed"
    joint,           \* Promise.all: "none", "pending", "fulfilled", "rejected"
    jointError,      \* the rejection reason of Promise.all
    analysisResults, \* value returned by analyzeFullRepository, or NoValue
    \* S3Uploader
    uploadIndex,     \* position of the upload loop in the output files
    uploaded,        \* keys of uploadedUrls
    \* the handler
    pc,              \* the await the handler is suspended at
    steps,           \* pipeline steps started so far, in order
    failedStep,      \* the step whose error reached the catch block, or "none"
    outcome,         \* "running", "returned", "threw"
    response,        \* the response returned
    calls,           \* calls made to the collaborators, by name
    \* functions called on their own
    probe            \* such a call: function, input, output

envVars == <<fs, gitignoreFile, event>>
clientVars == <<repoPath, disk, clientError>>
walkVars == <<fileStructure, lastWalk, walkedDisk, previousStructure>>
contentVars == <<mainFiles, rankedDisk, rankedFiles, fileContents, readIndex, readLog>>
analysisVars == <<tasks, joint, jointError, analysisResults>>
uploadVars == <<uploadIndex, uploaded>>
unitVars == <<probe>>

vars == <<fs, gitignoreFile, event, repoPath, disk, clientError, fileStructure,
          lastWalk, walkedDisk, previousStructure, mainFiles, rankedDisk,
          rankedFiles, fileContents, readIndex,
          readLog, tasks, joint, jointError,
          analysisResults, uploadIndex, uploaded, pc, steps, failedStep, outcome,
          response, calls, probe>>

NoValue == [none |-> TRUE]

(***************************************************************************)
(* Bounds of the model.                                                    *)
(***************************************************************************)
\* number of files in the large flat repository (above the cap of 100)
BigFiles == 101

\* longest model answer, in tokens
MaxTokens == 4

\* length of the prose that follows the tokens of a long model answer (above
\* the 500 characters of raw_response)
LongTail == 600

\* number of documented packages in the repository of packages (with the
\* README.md at the root, one file more than the ranked list holds)
ReadmeDirs == 20

(***************************************************************************)
(* Characters and names.                                                   *)
(***************************************************************************)
UpperChars == <<"A","B","C","D","E","F","G","H","I","J","K","L","M",
                "N","O","P","Q","R","S","T","U","V","W","X","Y","Z">>
LowerChars == <<"a","b","c","d","e","f","g","h","i","j","k","l","m",
                "n","o","p","q","r","s","t","u","v","w","x","y","z">>

ToLowerChar(c) ==
    IF \E i \in 1..26 : UpperChars[i] = c
    THEN LowerChars[CHOOSE i \in 1..26 : UpperChars[i] = c]
    ELSE c

\* String.prototype.toLowerCase
ToLowerCase(s) == [i \in 1..Len(s) |-> ToLowerChar(s[i])]

MaxOf(S) == CHOOSE m \in S : \A x \in S : x <= m

\* path.extname applied to one path component: from the last "." to the end;
\* empty when there is no ".", when the only "." is the first character, and
\* for the component "..".
ExtName(name) ==
    LET dots == {i \in 1..Len(name) : name[i] = "."}
    IN  IF dots = {} THEN <<>>
        ELSE LET startDot == MaxOf(dots)
             IN  IF startDot = 1 THEN <<>>
                 ELSE IF name[1] = "." /\ startDot = 2 /\ Len(name) = 2 THEN <<>>
                 ELSE SubSeq(name, startDot, Len(name))

(***************************************************************************)
(* The ignore matcher (package "ignore"): rules are kept in the order they *)
(* were added; a path is ignored when one of its parent directories is, or *)
(* when the last rule that matches it is not a negation.  A pattern without*)
(* "/" inside matches the last component of the tested path; a pattern     *)
(* ending in "/" matches only a path tested as a directory (the client     *)
(* tests every item without a trailing "/", parents are tested with one).  *)
(***************************************************************************)
RECURSIVE GlobMatch(_, _)
\* "*" stands for any run of characters of one component
GlobMatch(pat, s) ==
    IF pat = <<>> THEN s = <<>>
    ELSE IF Head(pat) = "*"
         THEN GlobMatch(Tail(pat), s) \/ (s # <<>> /\ GlobMatch(pat, Tail(s)))
         ELSE s # <<>> /\ Head(s) = Head(pat) /\ GlobMatch(Tail(pat), Tail(s))

\* a line of an ignore file that states a pattern (not blank, not a comment)
IsPatternLine(line) ==
    /\ line # <<>>
    /\ \E i \in 1..Len(line) : line[i] # " "
    /\ line[1] # "#"

ParseRule(line) ==
    LET negative == line[1] = "!"
        body     == IF negative THEN Tail(line) ELSE line
        dirOnly  == body # <<>> /\ body[Len(body)] = "/"
    IN  [negative |-> negative,
         dirOnly  |-> dirOnly,
         glob     |-> IF dirOnly THEN SubSeq(body, 1, Len(body) - 1) ELSE body]

\* ig.add(lines)
AddPatterns(rules, lines) ==
    LET kept == SelectSeq(lines, IsPatternLine)
    IN  rules \o [i \in 1..Len(kept) |-> ParseRule(kept[i])]

RuleMatches(rule, path, asDir) ==
    /\ rule.dirOnly => asDir
    /\ GlobMatch(rule.glob, path[Len(path)])

\* the verdict of the rules on the path itself: the last matching rule decides
TestOne(rules, path, asDir) ==
    LET hits == {i \in 1..Len(rules) : RuleMatches(rules[i], path, asDir)}
    IN  hits # {} /\ ~rules[MaxOf(hits)].negative

\* ig.ignores(relativeItemPath), for a non-empty relative path
Ignores(rules, path) ==
    \/ \E k \in 1..(Len(path) - 1) : TestOne(rules, SubSeq(path, 1, k), TRUE)
    \/ TestOne(rules, path, FALSE)

DefaultPatterns ==
    << <<".","g","i","t">>,
       <<"n","o","d","e","_","m","o","d","u","l","e","s">>,
       <<"_","_","p","y","c","a","c","h","e","_","_">>,
       <<"*",".","p","y","c">>,
       <<".","D","S","_","S","t","o","r","e">>,
       <<"*",".","l","o","g">>,
       <<"d","i","s","t">>,
       <<"b","u","i","l","d">> >>

\* a _loadGitignore in which the patterns of the repository take the place
\* of the defaults
LoadGitignoreReplacing(gi) ==
    IF gi.exists /\ gi.readable THEN AddPatterns(<<>>, gi.lines)
    ELSE AddPatterns(<<>>, DefaultPatterns)

\* GitHubClient._loadGitignore: the defaults, then the repository's .gitignore
\* when it exists and can be read (a read error is swallowed)
LoadGitignore(gi) ==
    LET ig == AddPatterns(<<>>, DefaultPatterns)
    IN  IF gi.exists /\ gi.readable THEN AddPatterns(ig, gi.lines) ELSE ig

(***************************************************************************)
(* Extension -> language table.                                            *)
(***************************************************************************)
LangMap ==
    (<<".","j","s">> :> "JavaScript")
    @@ (<<".","t","s">> :> "TypeScript")
    @@ (<<".","p","y">> :> "Python")
    @@ (<<".","j","a","v","a">> :> "Java")
    @@ (<<".","c","p","p">> :> "C++")
    @@ (<<".","c">> :> "C")
    @@ (<<".","c","s">> :> "C#")
    @@ (<<".","p","h","p">> :> "PHP")
    @@ (<<".","r","b">> :> "Ruby")
    @@ (<<".","g","o">> :> "Go")
    @@ (<<".","r","s">> :> "Rust")
    @@ (<<".","s","w","i","f","t">> :> "Swift")
    @@ (<<".","k","t">> :> "Kotlin")
    @@ (<<".","s","c","a","l","a">> :> "Scala")
    @@ (<<".","h","t","m","l">> :> "HTML")
    @@ (<<".","c","s","s">> :> "CSS")
    @@ (<<".","j","s","o","n">> :> "JSON")
    @@ (<<".","x","m","l">> :> "XML")
    @@ (<<".","y","a","m","l">> :> "YAML")
    @@ (<<".","y","m","l">> :> "YAML")

\* a table lookup that files every other extension under "Other"
GetLanguageOrOther(ext) ==
    IF ext \in DOMAIN LangMap THEN LangMap[ext] ELSE "Other"

\* GitHubClient._getLanguageFromExtension: langMap[ext] || null
GetLanguageFromExtension(ext) ==
    IF ext \in DOMAIN LangMap THEN LangMap[ext] ELSE "null"

(***************************************************************************)
(* File and directory names used by the repositories of the model.         *)
(***************************************************************************)
N_README_md == <<"R","E","A","D","M","E",".","m","d">>
N_index_js == <<"i","n","d","e","x",".","j","s">>
N_image_png == <<"i","m","a","g","e",".","p","n","g">>
N_node_modules == <<"n","o","d","e","_","m","o","d","u","l","e","s">>
N_foo_js == <<"f","o","o",".","j","s">>
N_src == <<"s","r","c">>
N_lib == <<"l","i","b">>
N_main_py == <<"m","a","i","n",".","p","y">>
N_App_JS == <<"A","p","p",".","J","S">>
N_notes_txt == <<"n","o","t","e","s",".","t","x","t">>
N_Makefile == <<"M","a","k","e","f","i","l","e">>
N_gitignore == <<".","g","i","t","i","g","n","o","r","e">>
N_build == <<"b","u","i","l","d">>
N_debug_log == <<"d","e","b","u","g",".","l","o","g">>
N_style_css == <<"s","t","y","l","e",".","c","s","s">>
N_conf_yml == <<"c","o","n","f",".","y","m","l">>
N_conf_yaml == <<"c","o","n","f",".","y","a","m","l">>
N_git == <<".","g","i","t">>
N_HEAD == <<"H","E","A","D">>
N_sock == <<"a","g","e","n","t",".","s","o","c","k">>
N_util_ts == <<"u","t","i","l",".","t","s">>
N_docs == <<"d","o","c","s">>
N_LOGO_PNG == <<"L","O","G","O",".","P","N","G">>
N_manual_pdf == <<"m","a","n","u","a","l",".","p","d","f">>
N_archive_tar_gz == <<"a","r","c","h","i","v","e",".","t","a","r",".","g","z">>
N_gone_py == <<"g","o","n","e",".","p","y">>
N_out_js == <<"o","u","t",".","j","s">>

(***************************************************************************)
(* The working tree.  A node is a directory (with the names readdir        *)
(* returns, in that order), a regular file, or something else (socket,     *)
(* fifo).  statOk is FALSE when fs.stat on the entry fails (the entry was  *)
(* deleted after its parent was listed, a dangling symlink); listOk is     *)
(* FALSE when fs.readdir on the directory fails (no permission, deleted    *)
(* after its stat); readOk is FALSE when fs.readFile on the entry fails    *)
(* (a directory, no read permission).                                      *)
(***************************************************************************)
Dir(items) == [kind |-> "dir", statOk |-> TRUE, listOk |-> TRUE, readOk |-> FALSE, size |-> 0, items |-> items]
File(sz)   == [kind |-> "file", statOk |-> TRUE, listOk |-> FALSE, readOk |-> TRUE, size |-> sz, items |-> <<>>]
Other      == [kind |-> "other", statOk |-> TRUE, listOk |-> FALSE, readOk |-> FALSE, size |-> 0, items |-> <<>>]

\* a regular file fs.readFile fails on (no read permission)
Unreadable(sz) == [File(sz) EXCEPT !.readOk = FALSE]

Root == <<>>
EmptyMap == [x \in {} |-> 0]

(***************************************************************************)
(* GitHubClient._walkDirectory.  One try/catch encloses the readdir and    *)
(* the whole loop over the items: a failing readdir ends the call with     *)
(* nothing added, a failing stat ends the loop at that item.  The catch    *)
(* swallows the error, so the caller's loop goes on.  The accumulator      *)
(* carries the two arrays the calls share (files, languages), the readdir  *)
(* calls made, and thrown: whether the loop of the current call was left   *)
(* by an exception.                                                        *)
(***************************************************************************)
RECURSIVE WalkDirectory(_, _, _, _)
RECURSIVE WalkItems(_, _, _, _, _, _)

\* lines 244-257: the extension, the language counter, the pushed entry
RecordFile(tree, relativePath, item, acc) ==
    LET relativeItemPath == Append(relativePath, item)
        ext      == ToLowerCase(ExtName(item))
        language == GetLanguageFromExtension(ext)
        entry    == [name      |-> item,
                     path      |-> relativeItemPath,
                     directory |-> relativePath,
                     size      |-> tree[relativeItemPath].size,
                     extension |-> ext]
    IN  [acc EXCEPT
            !.languages = IF language = "null" THEN @
                          ELSE IF language \in DOMAIN @
                               THEN [@ EXCEPT ![language] = @ + 1]
                               ELSE @ @@ (language :> 1),
            !.files = Append(@, entry)]

\* a loop body that asks the matcher about files only and descends into
\* every directory
WalkItemDescendsIgnored(tree, relativePath, item, acc, ig) ==
    LET relativeItemPath == Append(relativePath, item)
        node == tree[relativeItemPath]
    IN  IF ~node.statOk THEN [acc EXCEPT !.thrown = TRUE]
        ELSE IF node.kind = "dir" THEN WalkDirectory(tree, relativeItemPath, acc, ig)
        ELSE IF Ignores(ig, relativeItemPath) THEN acc
        ELSE IF node.kind = "file" THEN RecordFile(tree, relativePath, item, acc)
        ELSE acc

\* lines 225-258: the body of the loop for one item
WalkItem(tree, relativePath, item, acc, ig) ==
    LET relativeItemPath == Append(relativePath, item)
        node == tree[relativeItemPath]
    IN  IF Ignores(ig, relativeItemPath) THEN acc
        ELSE IF ~node.statOk THEN [acc EXCEPT !.thrown = TRUE]
        ELSE IF node.kind = "dir" THEN WalkDirectory(tree, relativeItemPath, acc, ig)
        ELSE IF node.kind = "file" THEN RecordFile(tree, relativePath, item, acc)
        ELSE acc

\* lines 224-259: the loop over items lo..hi of one directory, in order; no
\* item is visited once the loop was left by an exception
WalkItems(tree, relativePath, lo, hi, acc, ig) ==
    IF lo > hi \/ acc.thrown THEN acc
    ELSE IF lo = hi
    THEN WalkItem(tree, relativePath, tree[relativePath].items[lo], acc, ig)
    ELSE LET mid == (lo + hi) \div 2
         IN  WalkItems(tree, relativePath, mid + 1, hi,
                       WalkItems(tree, relativePath, lo, mid, acc, ig), ig)

\* lines 220-263
WalkDirectory(tree, relativePath, acc, ig) ==
    LET listed == [acc EXCEPT !.readdirs = Append(@, relativePath)]
        done   == IF ~tree[relativePath].listOk THEN listed
                  ELSE WalkItems(tree, relativePath, 1,
                                 Len(tree[relativePath].items), listed, ig)
    IN  [done EXCEPT !.thrown = FALSE]

EmptyWalk == [files |-> <<>>, languages |-> EmptyMap, readdirs |-> <<>>, thrown |-> FALSE]

\* the cap of the structure view (files.slice(0, 100))
StructureCap == 100

Slice(s, n) == SubSeq(s, 1, IF Len(s) < n THEN Len(s) ELSE n)

\* a getFileStructure that counts the files after the cap
GetFileStructureCountsCapped(tree, gi) ==
    LET ig   == LoadGitignore(gi)
        walk == WalkDirectory(tree, Root, EmptyWalk, ig)
    IN  [result |-> [total_files |-> Len(Slice(walk.files, StructureCap)),
                     languages   |-> walk.languages,
                     files       |-> Slice(walk.files, StructureCap)],
         walk   |-> walk]

\* f.path of every entry (files.map((f) => f.path))
PathsOf(files) == [i \in 1..Len(files) |-> files[i].path]

\* a getFileStructure whose arrays and counters belong to the client and are
\* never emptied
GetFileStructureAccumulating(tree, gi) ==
    LET ig   == LoadGitignore(gi)
        walk == WalkDirectory(tree, Root, lastWalk, ig)
    IN  [result   |-> [total_files |-> Len(walk.files),
                       languages   |-> walk.languages,
                       files       |-> Slice(walk.files, StructureCap)],
         walk |-> walk]

\* GitHubClient.getFileStructure, on a cloned client
GetFileStructure(tree, gi) ==
    LET ig   == LoadGitignore(gi)
        walk == WalkDirectory(tree, Root, EmptyWalk, ig)
    IN  [result   |-> [total_files |-> Len(walk.files),
                       languages   |-> walk.languages,
                       files       |-> Slice(walk.files, StructureCap)],
         walk |-> walk]

(***************************************************************************)
(* The repositories of the model.                                          *)
(***************************************************************************)
\* index.js, node_modules/foo.js, image.png, README.md
ScenarioTree ==
    (Root :> Dir(<<N_index_js, N_node_modules, N_image_png, N_README_md>>))
    @@ (<<N_index_js>> :> File(500))
    @@ (<<N_node_modules>> :> Dir(<<N_foo_js>>))
    @@ (<<N_node_modules, N_foo_js>> :> File(40))
    @@ (<<N_image_png>> :> File(9000))
    @@ (<<N_README_md>> :> File(200))

\* a nested tree: version-control metadata, sources two levels deep, build
\* output, a log, a socket; src/App.JS cannot be read
NestedTree ==
    (Root :> Dir(<<N_git, N_src, N_build, N_debug_log, N_Makefile,
                   N_sock, N_style_css, N_README_md>>))
    @@ (<<N_git>> :> Dir(<<N_HEAD>>))
    @@ (<<N_git, N_HEAD>> :> File(23))
    @@ (<<N_src>> :> Dir(<<N_main_py, N_lib, N_App_JS>>))
    @@ (<<N_src, N_main_py>> :> File(60000))
    @@ (<<N_src, N_lib>> :> Dir(<<N_util_ts, N_notes_txt>>))
    @@ (<<N_src, N_lib, N_util_ts>> :> File(50000))
    @@ (<<N_src, N_lib, N_notes_txt>> :> File(0))
    @@ (<<N_src, N_App_JS>> :> Unreadable(300))
    @@ (<<N_build>> :> Dir(<<N_out_js>>))
    @@ (<<N_build, N_out_js>> :> File(70))
    @@ (<<N_debug_log>> :> File(10))
    @@ (<<N_Makefile>> :> File(120))
    @@ (<<N_sock>> :> Other)
    @@ (<<N_style_css>> :> File(80))
    @@ (<<N_README_md>> :> File(200))

Digits == <<"0","1","2","3","4","5","6","7","8","9">>

\* f000.js, f001.js, ...
NumberedName(i) ==
    <<"f", Digits[((i \div 100) % 10) + 1], Digits[((i \div 10) % 10) + 1],
      Digits[(i % 10) + 1], ".", "j", "s">>

\* a wide tree: src/main.py, then BigFiles numbered files at the root, then
\* README.md
BigTree ==
    (Root :> Dir(<<N_src>> \o [i \in 1..BigFiles |-> NumberedName(i)] \o <<N_README_md>>))
    @@ (<<N_README_md>> :> File(200))
    @@ (<<N_src>> :> Dir(<<N_main_py>>))
    @@ (<<N_src, N_main_py>> :> File(10))
    @@ [p \in {<<NumberedName(i)>> : i \in 1..BigFiles} |-> File(1)]

\* p000, p001, ...
NumberedDir(i) ==
    <<"p", Digits[((i \div 100) % 10) + 1], Digits[((i \div 10) % 10) + 1],
      Digits[(i % 10) + 1]>>

\* a repository of packages: docs/pNNN/README.md for ReadmeDirs packages,
\* listed before the README.md at the root
ReadmeTree ==
    (Root :> Dir(<<N_docs, N_README_md>>))
    @@ (<<N_docs>> :> Dir([i \in 1..ReadmeDirs |-> NumberedDir(i)]))
    @@ [p \in {<<N_docs, NumberedDir(i)>> : i \in 1..ReadmeDirs} |-> Dir(<<N_README_md>>)]
    @@ [p \in {<<N_docs, NumberedDir(i), N_README_md>> : i \in 1..ReadmeDirs} |-> File(200)]
    @@ (<<N_README_md>> :> File(200))

\* binary assets of several sizes next to a text file
AssetsTree ==
    (Root :> Dir(<<N_LOGO_PNG, N_manual_pdf, N_archive_tar_gz, N_notes_txt>>))
    @@ (<<N_LOGO_PNG>> :> File(100))
    @@ (<<N_manual_pdf>> :> File(60000))
    @@ (<<N_archive_tar_gz>> :> File(0))
    @@ (<<N_notes_txt>> :> File(200))

EmptyTree == (Root :> Dir(<<>>))

\* the tree with fs.stat failing on p, or fs.readdir failing on p
WithFault(tree, p, fault) ==
    IF fault = "stat" THEN [tree EXCEPT ![p].statOk = FALSE]
    ELSE [tree EXCEPT ![p].listOk = FALSE]

Directories(tree) == {p \in DOMAIN tree : tree[p].kind = "dir"}

FaultyTrees(tree) ==
    {WithFault(tree, p, "stat") : p \in DOMAIN tree \ {Root}}
    \cup {WithFault(tree, p, "list") : p \in Directories(tree)}

WorkingTrees ==
    {ScenarioTree, NestedTree, BigTree, ReadmeTree, EmptyTree}
    \cup FaultyTrees(ScenarioTree) \cup FaultyTrees(NestedTree)

\* the .gitignore files of the model
GitignoreFiles ==
    { [exists |-> FALSE, readable |-> FALSE, lines |-> <<>>],
      [exists |-> TRUE, readable |-> FALSE, lines |-> <<<<"s","r","c">>>>],
      [exists |-> TRUE, readable |-> TRUE,
       lines |-> <<<<"#"," ","l","o","c","a","l">>, <<>>, <<"l","i","b","/">>>>],
      [exists |-> TRUE, readable |-> TRUE,
       lines |-> <<<<"*",".","t","x","t">>, <<"!","n","o","t","e","s",".","t","x","t">>, <<"*",".","c","s","s">>>>],
      [exists |-> TRUE, readable |-> TRUE,
       lines |-> <<<<"!","n","o","d","e","_","m","o","d","u","l","e","s">>, <<"!","b","u","i","l","d">>, <<"s","r","c">>>>] }

\* a tree whose root also holds the .gitignore file
WithGitignore(tree, gi) ==
    IF gi.exists
    THEN [tree EXCEPT ![Root].items = <<N_gitignore>> \o @]
         @@ (<<N_gitignore>> :> File(30))
    ELSE tree

(***************************************************************************)
(* Requests.                                                               *)
(***************************************************************************)
U_good    == <<"h","t","t","p","s",":","/","/","g","i","t","h","u","b",".","c","o","m","/","a","c","m","e","/","a","p","p">>
U_dotgit  == <<"g","i","t","@","g","i","t","h","u","b",".","c","o","m","/","a","c","m","e","/","a","p","p",".","g","i","t">>
U_gitlab  == <<"h","t","t","p","s",":","/","/","g","i","t","l","a","b",".","c","o","m","/","a","c","m","e","/","a","p","p">>
U_noname  == <<"h","t","t","p","s",":","/","/","g","i","t","h","u","b",".","c","o","m","/","a","c","m","e">>
U_garbage == <<"n","o","t"," ","a"," ","u","r","l">>
U_empty   == <<>>

\* URLs git can clone when the network and the remote cooperate
ClonableUrls == {U_good, U_dotgit, U_gitlab}

GithubUrls == {U_empty, U_good, U_dotgit, U_gitlab, U_noname, U_garbage}

\* event: a body that is absent, a JSON object, or text JSON.parse rejects;
\* the fields of the parsed data (has_url is FALSE when github_url is not
\* given); whether a bucket name is available from the parameter or from
\* S3_BUCKET_NAME
Events ==
    { e \in [body : {"none", "json", "malformed"},
             has_url : BOOLEAN,
             github_url : GithubUrls,
             upload_to_s3 : BOOLEAN,
             bucket : BOOLEAN] :
        /\ e.body = "malformed" => (e.github_url = U_good /\ e.upload_to_s3 /\ e.bucket)
        /\ ~e.has_url => e.github_url = U_empty
        /\ ~e.upload_to_s3 => e.bucket }

(***************************************************************************)
(* GitHubClient.extractRepoInfo: /github\.com\/([^\/]+)\/([^\/]+)/         *)
(***************************************************************************)
HostNeedle == <<"g","i","t","h","u","b",".","c","o","m","/">>

\* the end of the longest run of characters other than "/" starting at from
\* (from - 1 when the run is empty)
RunEnd(s, from) ==
    LET stops == {k \in from..Len(s) : s[k] = "/"}
    IN  IF stops = {} THEN Len(s)
        ELSE (CHOOSE k \in stops : \A x \in stops : k <= x) - 1

\* whether the pattern matches with "github.com/" starting at index i
MatchesAt(url, i) ==
    LET o1 == i + Len(HostNeedle)
        o2 == RunEnd(url, o1)
        n1 == o2 + 2
        n2 == RunEnd(url, n1)
    IN  /\ i + Len(HostNeedle) - 1 <= Len(url)
        /\ SubSeq(url, i, i + Len(HostNeedle) - 1) = HostNeedle
        /\ o2 >= o1
        /\ o2 + 1 <= Len(url)
        /\ url[o2 + 1] = "/"
        /\ n2 >= n1

MatchesGithubPattern(url) == \E i \in 1..Len(url) : MatchesAt(url, i)

EndsWith(s, suffix) ==
    /\ Len(s) >= Len(suffix)
    /\ SubSeq(s, Len(s) - Len(suffix) + 1, Len(s)) = suffix

DotGit == <<".", "g", "i", "t">>

\* an extractRepoInfo that leaves the name as it was matched
ExtractRepoInfoKeepsSuffix(url) ==
    IF ~MatchesGithubPattern(url)
    THEN [ok |-> FALSE,
          error |-> <<"Failed to extract repo info: ", "Invalid GitHub URL format">>]
    ELSE LET i  == CHOOSE k \in 1..Len(url) :
                       MatchesAt(url, k) /\ \A j \in 1..(k - 1) : ~MatchesAt(url, j)
             o1 == i + Len(HostNeedle)
             o2 == RunEnd(url, o1)
             n1 == o2 + 2
             n2 == RunEnd(url, n1)
         IN  [ok       |-> TRUE,
              owner    |-> SubSeq(url, o1, o2),
              repoName |-> SubSeq(url, n1, n2)]

\* the value returned, or the error thrown
ExtractRepoInfo(url) ==
    IF ~MatchesGithubPattern(url)
    THEN [ok |-> FALSE,
          error |-> <<"Failed to extract repo info: ", "Invalid GitHub URL format">>]
    ELSE LET i  == CHOOSE k \in 1..Len(url) :
                       MatchesAt(url, k) /\ \A j \in 1..(k - 1) : ~MatchesAt(url, j)
             o1 == i + Len(HostNeedle)
             o2 == RunEnd(url, o1)
             n1 == o2 + 2
             n2 == RunEnd(url, n1)
             matched == SubSeq(url, n1, n2)
         IN  [ok       |-> TRUE,
              owner    |-> SubSeq(url, o1, o2),
              repoName |-> IF EndsWith(matched, DotGit)
                           THEN SubSeq(matched, 1, Len(matched) - 4)
                           ELSE matched]

(***************************************************************************)
(* Ranking and content loading.                                            *)
(***************************************************************************)
\* path.basename / path.extname of a relative path
BaseName(path) == IF path = <<>> THEN <<>> ELSE path[Len(path)]

ReadmeNames   == {<<"r","e","a","d","m","e",".","m","d">>, <<"r","e","a","d","m","e",".","t","x","t">>, <<"r","e","a","d","m","e">>}
ManifestNames == {<<"p","a","c","k","a","g","e",".","j","s","o","n">>, <<"r","e","q","u","i","r","e","m","e","n","t","s",".","t","x","t">>, <<"s","e","t","u","p",".","p","y">>}
EntryNames    == {<<"i","n","d","e","x",".","j","s">>, <<"m","a","i","n",".","p","y">>, <<"a","p","p",".","p","y">>, <<"s","e","r","v","e","r",".","j","s">>}

ExtScores ==
    (<<".","j","s">> :> 70)
    @@ (<<".","p","y">> :> 70)
    @@ (<<".","t","s">> :> 70)
    @@ (<<".","j","s","o","n">> :> 60)
    @@ (<<".","y","a","m","l">> :> 60)
    @@ (<<".","y","m","l">> :> 60)
    @@ (<<".","m","d">> :> 50)
    @@ (<<".","t","x","t">> :> 40)
    @@ (<<".","h","t","m","l">> :> 30)
    @@ (<<".","c","s","s">> :> 20)

\* a score that adds the points of the name to the points of the extension
GetFileImportanceCumulative(filePath) ==
    LET fileName == ToLowerCase(BaseName(filePath))
        ext      == ToLowerCase(ExtName(BaseName(filePath)))
    IN  (IF fileName \in ReadmeNames THEN 100
         ELSE IF fileName \in ManifestNames THEN 90
         ELSE IF fileName \in EntryNames THEN 80
         ELSE 0)
        + (IF ext \in DOMAIN ExtScores THEN ExtScores[ext] ELSE 10)

\* GitHubClient._getFileImportance
GetFileImportance(filePath) ==
    LET fileName == ToLowerCase(BaseName(filePath))
        ext      == ToLowerCase(ExtName(BaseName(filePath)))
    IN  IF fileName \in ReadmeNames THEN 100
        ELSE IF fileName \in ManifestNames THEN 90
        ELSE IF fileName \in EntryNames THEN 80
        ELSE IF ext \in DOMAIN ExtScores THEN ExtScores[ext]
        ELSE 10

Reverse(s) == [i \in 1..Len(s) |-> s[Len(s) + 1 - i]]

\* a sort by score that turns the order of the paths of equal score around
SortByImportanceUnstable(paths) ==
    LET Scored(s) == LET Has(p) == GetFileImportance(p) = s
                     IN  Reverse(SelectSeq(paths, Has))
    IN  Scored(100) \o Scored(90) \o Scored(80) \o Scored(70) \o Scored(60)
        \o Scored(50) \o Scored(40) \o Scored(30) \o Scored(20) \o Scored(10)

\* Array.prototype.sort with (a, b) => importance(b) - importance(a): a stable
\* sort, descending by score.  The paths of the highest score come first, in
\* the order they have in the array, then those of the next score, and so on.
SortByImportance(paths) ==
    LET Scored(s) == LET Has(p) == GetFileImportance(p) = s
                     IN  SelectSeq(paths, Has)
    IN  Scored(100) \o Scored(90) \o Scored(80) \o Scored(70) \o Scored(60)
        \o Scored(50) \o Scored(40) \o Scored(30) \o Scored(20) \o Scored(10)

\* the size of the ranked list (sortedFiles.slice(0, 20))
MainFilesCap == 20

\* a getMainFiles that cuts the list without sorting it
GetMainFilesUnsorted(tree, gi) ==
    LET walk  == WalkDirectory(tree, Root, EmptyWalk, LoadGitignore(gi))
        paths == [i \in 1..Len(walk.files) |-> walk.files[i].path]
    IN  [result |-> Slice(paths, MainFilesCap),
         walk   |-> walk]

\* a getMainFiles that ranks the files of the structure view only
GetMainFilesOfCapped(tree, gi) ==
    LET walk  == WalkDirectory(tree, Root, EmptyWalk, LoadGitignore(gi))
        paths == [i \in 1..Len(walk.files) |-> walk.files[i].path]
    IN  [result |-> Slice(SortByImportance(Slice(paths, StructureCap)), MainFilesCap),
         walk   |-> walk]

\* GitHubClient.getMainFiles, on a cloned client
GetMainFiles(tree, gi) ==
    LET walk  == WalkDirectory(tree, Root, EmptyWalk, LoadGitignore(gi))
        paths == [i \in 1..Len(walk.files) |-> walk.files[i].path]
    IN  [result |-> Slice(SortByImportance(paths), MainFilesCap),
         walk   |-> walk]

BinaryExts ==
    {<<".","j","p","g">>, <<".","j","p","e","g">>, <<".","p","n","g">>, <<".","g","i","f">>, <<".","b","m","p">>, <<".","i","c","o">>, <<".","p","d","f">>, <<".","z","i","p">>, <<".","t","a","r">>, <<".","g","z">>}
    \cup {<<".","r","a","r">>, <<".","e","x","e">>, <<".","d","l","l">>, <<".","s","o">>, <<".","d","y","l","i","b">>, <<".","m","p","3">>, <<".","m","p","4">>, <<".","a","v","i">>, <<".","m","o","v">>}

\* a binary test that compares the extension as it is written
IsBinaryFileCaseSensitive(filePath) == ExtName(BaseName(filePath)) \in BinaryExts

\* GitHubClient._isBinaryFile
IsBinaryFile(filePath) == ToLowerCase(ExtName(BaseName(filePath))) \in BinaryExts

Null == [null |-> TRUE]

\* the text of a file: what matters to the callers is the path it was read
\* from and whether it is the empty string
ContentOf(tree, filePath) == [text |-> filePath, length |-> tree[filePath].size]

\* a readFileContent that also leaves out the files of exactly maxSize
ReadFileContentBelow(tree, filePath, maxSize) ==
    IF filePath \notin DOMAIN tree THEN [null |-> TRUE]
    ELSE IF ~tree[filePath].statOk THEN [null |-> TRUE]
    ELSE IF tree[filePath].size >= maxSize THEN [null |-> TRUE]
    ELSE IF IsBinaryFile(filePath) THEN [null |-> TRUE]
    ELSE IF ~tree[filePath].readOk THEN [null |-> TRUE]
    ELSE [text |-> filePath, length |-> tree[filePath].size]

\* GitHubClient.readFileContent, on a cloned client (lines 135-161): null for
\* a path that does not exist, a size above maxSize, a binary extension, and
\* for an error thrown by fs.readFile, which the catch turns into null
ReadFileContent(tree, filePath, maxSize) ==
    IF filePath \notin DOMAIN tree THEN Null
    ELSE IF ~tree[filePath].statOk THEN Null
    ELSE IF tree[filePath].size > maxSize THEN Null
    ELSE IF IsBinaryFile(filePath) THEN Null
    ELSE IF ~tree[filePath].readOk THEN Null
    ELSE ContentOf(tree, filePath)

\* one call of readFileContent as the model records it
ReadRecord(filePath, maxSize, d, content, threw) ==
    [path |-> filePath, maxSize |-> maxSize, disk |-> d,
     content |-> content, threw |-> threw]

(***************************************************************************)
(* State predicates shared by the handler and the client.                  *)
(***************************************************************************)
\* what is at repoPath: the clone when it succeeded, an empty directory when
\* it did not, nothing to list once the directory was removed
DiskTreeOf(d) ==
    IF d = "cloned" THEN fs
    ELSE IF d = "empty" THEN EmptyTree
    ELSE WithFault(EmptyTree, Root, "list")

DiskGitignoreOf(d) ==
    IF d = "cloned" THEN gitignoreFile
    ELSE [exists |-> FALSE, readable |-> FALSE, lines |-> <<>>]

DiskTree == DiskTreeOf(disk)

\* the value of the last call of getFileStructure, when there was one and
\* the directory is what it was then
PreviousOnSameDisk ==
    IF fileStructure # NoValue /\ walkedDisk = disk THEN fileStructure ELSE NoValue

DiskGitignore == DiskGitignoreOf(disk)

AnalysisNames == {"overview", "relationships", "components", "setup"}

CallNames ==
    {"clone", "cleanup", "markdown", "put_markdown", "put_json"} \cup AnalysisNames

NoResponse == [statusCode |-> 0, success |-> FALSE, error |-> <<>>, fields |-> {}]

InitProgram ==
    /\ repoPath = "null"
    /\ disk = "none"
    /\ clientError = <<>>
    /\ fileStructure = NoValue
    /\ lastWalk = EmptyWalk
    /\ walkedDisk = "none"
    /\ previousStructure = NoValue
    /\ mainFiles = <<>>
    /\ rankedDisk = "none"
    /\ rankedFiles = <<>>
    /\ fileContents = <<>>
    /\ readIndex = 0
    /\ readLog = <<>>
    /\ tasks = [t \in AnalysisNames |-> "idle"]
    /\ joint = "none"
    /\ jointError = <<>>
    /\ analysisResults = NoValue
    /\ uploadIndex = 0
    /\ uploaded = {}
    /\ pc = "start"
    /\ steps = <<>>
    /\ failedStep = "none"
    /\ outcome = "running"
    /\ response = NoResponse
    /\ calls = [c \in CallNames |-> 0]
    /\ probe = NoValue

(***************************************************************************)
(* exports.handler                                                         *)
(***************************************************************************)
\* createErrorResponse(statusCode, message, details)
CreateErrorResponse(statusCode, message, details) ==
    [statusCode |-> statusCode,
     success    |-> FALSE,
     error      |-> message,
     fields     |-> {"success", "error"} \cup details]

\* a catch block that hands back what the request had produced so far
HandlerCatchPartial(step, error) ==
    /\ pc' = "done"
    /\ outcome' = "returned"
    /\ failedStep' = step
    /\ response' = CreateErrorResponse(
                       500, error,
                       {"execution_time"}
                       \cup (IF analysisResults # NoValue THEN {"analysis"} ELSE {}))

\* the catch block of the handler: every error thrown inside the try becomes
\* a 500 response
HandlerCatch(step, error) ==
    /\ pc' = "done"
    /\ outcome' = "returned"
    /\ failedStep' = step
    /\ response' = CreateErrorResponse(500, error, {"execution_time"})

\* the 200 response built from result
SuccessResponse(resultFields) ==
    [statusCode |-> 200,
     success    |-> TRUE,
     error      |-> <<>>,
     fields     |-> {"repository", "analysis", "success", "execution_time"}
                    \cup resultFields]

\* GitHubClient.cloneRepository up to the await of git.clone: the temporary
\* directory is made and repoPath is set before the clone runs
CloneIssued ==
    /\ repoPath' = "tmp"
    /\ disk' = "empty"
    /\ calls' = [calls EXCEPT !["clone"] = @ + 1]

\* lines 278-308: parse the event, check github_url, build the components,
\* call cloneRepository
HandlerStart ==
    /\ pc = "start"
    /\ IF event.body = "malformed"
       THEN /\ HandlerCatch("init", <<"Unexpected token">>)
            /\ UNCHANGED <<steps, repoPath, disk, calls>>
       ELSE IF ~event.has_url \/ event.github_url = <<>>
       THEN /\ pc' = "done"
            /\ outcome' = "returned"
            /\ response' = CreateErrorResponse(
                               400, <<"Missing required parameter: github_url">>, {})
            /\ UNCHANGED <<failedStep, steps, repoPath, disk, calls>>
       ELSE IF event.upload_to_s3 /\ ~event.bucket
       THEN /\ HandlerCatch("init", <<"S3 bucket name must be provided">>)
            /\ UNCHANGED <<steps, repoPath, disk, calls>>
       ELSE /\ steps' = Append(steps, "clone")
            /\ \/ /\ CloneIssued
                  /\ pc' = "clone"
                  /\ UNCHANGED <<failedStep, outcome, response>>
               \/ \* tmp.dirSync throws
                  /\ HandlerCatch("clone", <<"Failed to clone repository: ", "tmp">>)
                  /\ UNCHANGED <<repoPath, disk, calls>>
    /\ UNCHANGED <<envVars, unitVars, clientError, walkVars, contentVars, analysisVars, uploadVars>>

\* git.clone succeeds: cloneRepository returns, then extractRepoInfo (line 309)
CloneSucceeds ==
    /\ pc = "clone"
    /\ event.github_url \in ClonableUrls
    /\ disk' = "cloned"
    /\ steps' = Append(steps, "extract")
    /\ LET info == ExtractRepoInfo(event.github_url)
       IN  IF info.ok
           THEN /\ pc' = "structure"
                /\ UNCHANGED <<failedStep, outcome, response>>
           ELSE HandlerCatch("extract", info.error)
    /\ UNCHANGED <<envVars, unitVars, repoPath, clientError, walkVars, contentVars,
                   analysisVars, uploadVars, calls>>

\* a cloneRepository that tries the clone again when it fails
CloneFailsAndRetries ==
    /\ pc = "clone"
    /\ calls' = [calls EXCEPT !["clone"] = @ + 1]
    /\ UNCHANGED <<envVars, unitVars, clientVars, walkVars, contentVars, analysisVars,
                   uploadVars, pc, steps, failedStep, outcome, response>>

\* git.clone fails: cloneRepository wraps the error (lines 37-39)
CloneFails ==
    /\ pc = "clone"
    /\ HandlerCatch("clone", <<"Failed to clone repository: ", "git">>)
    /\ UNCHANGED <<envVars, unitVars, clientVars, walkVars, contentVars, analysisVars,
                   uploadVars, steps, calls>>

\* line 314
StructureWalk ==
    /\ pc = "structure"
    /\ steps' = Append(steps, "structure")
    /\ LET r == GetFileStructure(DiskTree, DiskGitignore)
       IN  /\ fileStructure' = r.result
           /\ lastWalk' = r.walk
           /\ walkedDisk' = disk
           /\ previousStructure' = PreviousOnSameDisk
    /\ pc' = "ranking"
    /\ UNCHANGED <<envVars, unitVars, clientVars, contentVars, analysisVars, uploadVars,
                   failedStep, outcome, response, calls>>

\* line 315
RankingWalk ==
    /\ pc = "ranking"
    /\ steps' = Append(steps, "ranking")
    /\ LET r == GetMainFiles(DiskTree, DiskGitignore)
       IN  /\ mainFiles' = r.result
           /\ rankedFiles' = PathsOf(r.walk.files)
           /\ lastWalk' = r.walk
           /\ walkedDisk' = disk
           /\ rankedDisk' = disk
    /\ UNCHANGED previousStructure
    /\ fileContents' = <<>>
    /\ readIndex' = 1
    /\ readLog' = <<>>
    /\ pc' = "read"
    /\ UNCHANGED <<envVars, unitVars, clientVars, fileStructure, analysisVars, uploadVars,
                   failedStep, outcome, response, calls>>

\* mainFiles.slice(0, 50) and readFileContent(filePath, 50000)
ContentCap == 50
MaxFileSize == 50000

\* if (content): null and the empty string are both skipped
Truthy(content) == content # Null /\ content.length > 0

Keys(map) == {map[i].path : i \in 1..Len(map)}

\* an assignment that puts the new key in front of the others
PutKeyFirst(map, k, v) ==
    <<[path |-> k, content |-> v]>> \o SelectSeq(map, LAMBDA e : e.path # k)

\* fileContents[filePath] = content: a new key goes after the keys the
\* object has, a key it has keeps its place
PutKey(map, k, v) ==
    IF k \in Keys(map)
    THEN [i \in 1..Len(map) |-> IF map[i].path = k THEN [path |-> k, content |-> v]
                                                   ELSE map[i]]
    ELSE Append(map, [path |-> k, content |-> v])

\* a loop whose iteration lets the error of a failing read through
ReadNextAborts ==
    /\ pc = "read"
    /\ readIndex <= Len(Slice(mainFiles, ContentCap))
    /\ LET filePath == mainFiles[readIndex]
           content  == ReadFileContent(DiskTree, filePath, MaxFileSize)
       IN  IF filePath \in DOMAIN DiskTree /\ ~DiskTree[filePath].readOk
           THEN /\ HandlerCatch("read", <<"EACCES">>)
                /\ readLog' = Append(readLog, ReadRecord(filePath, MaxFileSize, disk, content, TRUE))
                /\ UNCHANGED <<fileContents, readIndex>>
           ELSE /\ fileContents' = IF Truthy(content)
                                   THEN PutKey(fileContents, filePath, content)
                                   ELSE fileContents
                /\ readLog' = Append(readLog, ReadRecord(filePath, MaxFileSize, disk, content, FALSE))
                /\ readIndex' = readIndex + 1
                /\ UNCHANGED <<pc, failedStep, outcome, response>>
    /\ steps' = IF readIndex = 1 THEN Append(steps, "read") ELSE steps
    /\ UNCHANGED <<envVars, unitVars, clientVars, walkVars, mainFiles, rankedDisk, rankedFiles,
                   analysisVars, uploadVars, calls>>

\* lines 319-322, one iteration
ReadNext ==
    /\ pc = "read"
    /\ readIndex <= Len(Slice(mainFiles, ContentCap))
    /\ LET filePath == mainFiles[readIndex]
           content  == ReadFileContent(DiskTree, filePath, MaxFileSize)
       IN  /\ fileContents' = IF Truthy(content)
                              THEN PutKey(fileContents, filePath, content)
                              ELSE fileContents
           /\ readLog' = Append(readLog, ReadRecord(filePath, MaxFileSize, disk, content, FALSE))
    /\ readIndex' = readIndex + 1
    /\ steps' = IF readIndex = 1 THEN Append(steps, "read") ELSE steps
    /\ UNCHANGED <<envVars, unitVars, clientVars, walkVars, mainFiles, rankedDisk, rankedFiles, analysisVars, uploadVars,
                   pc, failedStep, outcome, response, calls>>

\* a join that waits for the four promises to settle and never rejects
PromiseAllSettled(j, ts) ==
    IF j # "pending" THEN j
    ELSE IF \A t \in AnalysisNames : ts[t] \in {"ok", "failed"} THEN "fulfilled"
    ELSE "pending"

\* Promise.all over the four analysis promises: rejected by the first
\* rejection, fulfilled when all four are fulfilled
PromiseAll(j, ts) ==
    IF j # "pending" THEN j
    ELSE IF \E t \in AnalysisNames : ts[t] = "failed" THEN "rejected"
    ELSE IF \A t \in AnalysisNames : ts[t] = "ok" THEN "fulfilled"
    ELSE "pending"

\* CodeAnalyzer._invokeBedrock, the catch (lines 304-307)
BedrockError(cause) == <<"Bedrock invocation failed: ", cause>>

\* CodeAnalyzer.analyzeFullRepository, the catch (lines 121-123)
AnalysisError(reason) == <<"Analysis failed: ">> \o reason

\* lines 325-330 and code-analyzer.js 103-108: the loop is over, the four
\* analysis calls are made one after the other without an await in between
AnalyzeStart ==
    /\ pc = "read"
    /\ readIndex > Len(Slice(mainFiles, ContentCap))
    /\ steps' = Append(steps, "analysis")
    /\ tasks' = [t \in AnalysisNames |-> "pending"]
    /\ calls' = [c \in CallNames |-> IF c \in AnalysisNames THEN calls[c] + 1 ELSE calls[c]]
    /\ joint' = "pending"
    /\ pc' = "join"
    /\ UNCHANGED <<envVars, unitVars, clientVars, walkVars, contentVars, jointError,
                   analysisResults, uploadVars, failedStep, outcome, response>>

\* one analysis call completes: the model answered (the answer is parsed by
\* _parseJsonResponse) or client.send failed
TaskCompletes(t, ok) ==
    /\ tasks[t] = "pending"
    /\ tasks' = [tasks EXCEPT ![t] = IF ok THEN "ok" ELSE "failed"]
    /\ joint' = PromiseAll(joint, tasks')
    /\ jointError' = IF joint = "pending" /\ ~ok THEN BedrockError(t) ELSE jointError
    /\ UNCHANGED <<envVars, unitVars, clientVars, walkVars, contentVars, analysisResults,
                   uploadVars, pc, steps, failedStep, outcome, response, calls>>

\* the await of Promise.all returns or throws
AnalyzeSettle ==
    /\ pc = "join"
    /\ joint \in {"fulfilled", "rejected"}
    /\ IF joint = "rejected"
       THEN /\ HandlerCatch("analysis", AnalysisError(jointError))
            /\ UNCHANGED <<analysisResults, steps, calls>>
       ELSE /\ analysisResults' =
                  [parts |-> {t \in AnalysisNames : tasks[t] = "ok"},
                   files_analyzed |-> Len(fileContents)]
            \* generateTutorial, then _generateMarkdownTutorialFromLLM
            /\ steps' = steps \o <<"generate", "markdown">>
            /\ calls' = [calls EXCEPT !["markdown"] = @ + 1]
            /\ pc' = "markdown"
            /\ UNCHANGED <<failedStep, outcome, response>>
    /\ UNCHANGED <<envVars, unitVars, clientVars, walkVars, contentVars, tasks, joint,
                   jointError, uploadVars>>

\* the markdown prompt is answered: lines 341-371
MarkdownSucceeds ==
    /\ pc = "markdown"
    /\ IF event.upload_to_s3
       THEN /\ steps' = Append(steps, "save")
            /\ pc' = "save"
            /\ UNCHANGED <<outcome, response>>
       ELSE /\ pc' = "done"
            /\ outcome' = "returned"
            /\ response' = SuccessResponse({"tutorial_content"})
            /\ UNCHANGED steps
    /\ UNCHANGED <<envVars, unitVars, clientVars, walkVars, contentVars, analysisVars,
                   uploadVars, failedStep, calls>>

MarkdownFails ==
    /\ pc = "markdown"
    /\ HandlerCatch("markdown", BedrockError("markdown"))
    /\ UNCHANGED <<envVars, unitVars, clientVars, walkVars, contentVars, analysisVars,
                   uploadVars, steps, calls>>

\* TutorialGenerator.saveTutorialFiles
SaveSucceeds ==
    /\ pc = "save"
    /\ steps' = Append(steps, "upload")
    /\ uploadIndex' = 1
    /\ uploaded' = {}
    /\ pc' = "upload"
    /\ UNCHANGED <<envVars, unitVars, clientVars, walkVars, contentVars, analysisVars,
                   failedStep, outcome, response, calls>>

SaveFails ==
    /\ pc = "save"
    /\ HandlerCatch("save", <<"Failed to save tutorial files: ", "write">>)
    /\ UNCHANGED <<envVars, unitVars, clientVars, walkVars, contentVars, analysisVars,
                   uploadVars, steps, calls>>

\* Object.entries({markdown, json})
UploadOrder == <<"markdown", "json">>

PutCall(fileType) == IF fileType = "markdown" THEN "put_markdown" ELSE "put_json"

\* a catch that rethrows the error as it came
UploadErrorUnwrapped(cause) == <<cause>>

\* S3Uploader.uploadTutorialFiles, the catch (lines 61-63)
UploadError(cause) == <<"Failed to upload files to S3: ", cause>>

\* S3Uploader.uploadTutorialFiles, one iteration of the loop: the local file
\* is gone (skipped), reading it fails, the put fails, or the put succeeds
UploadFile(result) ==
    /\ pc = "upload"
    /\ uploadIndex <= Len(UploadOrder)
    /\ LET fileType == UploadOrder[uploadIndex]
       IN  CASE result = "missing" ->
                    /\ uploadIndex' = uploadIndex + 1
                    /\ UNCHANGED <<uploaded, calls, pc, failedStep, outcome, response>>
             [] result = "unreadable" ->
                    /\ HandlerCatch("upload", UploadError("read"))
                    /\ UNCHANGED <<uploadIndex, uploaded, calls>>
             [] result = "rejected" ->
                    /\ calls' = [calls EXCEPT ![PutCall(fileType)] = @ + 1]
                    /\ HandlerCatch("upload", UploadError("put"))
                    /\ UNCHANGED <<uploadIndex, uploaded>>
             [] result = "stored" ->
                    /\ calls' = [calls EXCEPT ![PutCall(fileType)] = @ + 1]
                    /\ uploaded' = uploaded \cup {fileType}
                    /\ uploadIndex' = uploadIndex + 1
                    /\ UNCHANGED <<pc, failedStep, outcome, response>>
    /\ UNCHANGED <<envVars, unitVars, clientVars, walkVars, contentVars, analysisVars, steps>>

\* lines 363-382
UploadReturns ==
    /\ pc = "upload"
    /\ uploadIndex > Len(UploadOrder)
    /\ pc' = "done"
    /\ outcome' = "returned"
    /\ response' = SuccessResponse({"s3_urls", "tutorial_url", "data_url"})
    /\ UNCHANGED <<envVars, unitVars, clientVars, walkVars, contentVars, analysisVars,
                   uploadVars, steps, failedStep, calls>>

(***************************************************************************)
(* FunctionSpec: functions of the components called on their own.          *)
(***************************************************************************)
\* file names put to _getFileImportance
ScoreNames ==
    { <<"R","E","A","D","M","E",".","m","d">>,
      <<"r","e","a","d","m","e",".","m","d">>,
      <<"R","e","a","d","m","e",".","M","D">>,
      <<"R","E","A","D","M","E",".","t","x","t">>,
      <<"R","E","A","D","M","E">>,
      <<"r","e","a","d","m","e">>,
      <<"r","e","a","d","m","e",".","r","s","t">>,
      <<"R","E","A","D","M","E",".","m","d",".","b","a","k">>,
      <<"x","r","e","a","d","m","e",".","m","d">>,
      <<"p","a","c","k","a","g","e",".","j","s","o","n">>,
      <<"P","a","c","k","a","g","e",".","J","S","O","N">>,
      <<"r","e","q","u","i","r","e","m","e","n","t","s",".","t","x","t">>,
      <<"s","e","t","u","p",".","p","y">>,
      <<"s","e","t","u","p",".","c","f","g">>,
      <<"i","n","d","e","x",".","j","s">>,
      <<"I","N","D","E","X",".","J","S">>,
      <<"m","a","i","n",".","p","y">>,
      <<"a","p","p",".","p","y">>,
      <<"s","e","r","v","e","r",".","j","s">>,
      <<"i","n","d","e","x",".","t","s">>,
      <<"f","o","o",".","j","s">>,
      <<"A","p","p",".","J","S">>,
      <<"l","i","b",".","p","y">>,
      <<"u","t","i","l",".","t","s">>,
      <<"d","a","t","a",".","j","s","o","n">>,
      <<"c","o","n","f",".","y","a","m","l">>,
      <<"c","o","n","f",".","y","m","l">>,
      <<"n","o","t","e","s",".","m","d">>,
      <<"n","o","t","e","s",".","t","x","t">>,
      <<"p","a","g","e",".","h","t","m","l">>,
      <<"s","t","y","l","e",".","c","s","s">>,
      <<"M","a","k","e","f","i","l","e">>,
      <<"i","m","a","g","e",".","p","n","g">>,
      <<".","g","i","t","i","g","n","o","r","e">>,
      <<"a","r","c","h","i","v","e",".","t","a","r",".","g","z">>,
      <<"i","n","d","e","x",".","j","s","x">>,
      <<".","j","s">>,
      <<"p","a","g","e",".","H","T","M","L">> }

\* the directories the names are put in
ScoreDirs == {<<>>, <<N_src>>, <<N_docs, N_README_md>>}

\* relative paths put to _getFileImportance
ScorePaths == {d \o <<n>> : d \in ScoreDirs, n \in ScoreNames}

\* _getFileImportance(filePath)
ScoreFile(filePath) ==
    /\ probe = NoValue
    /\ probe' = [fn |-> "importance", input |-> filePath,
                 output |-> GetFileImportance(filePath)]
    /\ UNCHANGED <<envVars, clientVars, walkVars, contentVars, analysisVars,
                   uploadVars, pc, steps, failedStep, outcome, response, calls>>

\* A model answer is a run of tokens followed by tail characters of prose
\* without braces.  The tokens: an opening brace, a closing brace, "m" for
\* well-formed members with scalar values ("a": 1, "b": "x"), "n" for a key
\* whose value follows ("a":), "t" for a character of prose.
Tokens == {"{", "}", "m", "n", "t"}

TokenRuns == UNION {[1..k -> Tokens] : k \in 0..MaxTokens}

\* what _invokeBedrock hands over: content[0].text, a string, or undefined
\* when the first content block has no text
Responses ==
    [isString : {TRUE}, tokens : TokenRuns, tail : {0, LongTail}]
    \cup {[isString |-> FALSE, tokens |-> <<>>, tail |-> 0]}

\* JSON.parse accepts the text as an object
RECURSIVE IsJsonObject(_)
IsJsonObject(s) ==
    /\ Len(s) >= 2
    /\ s[1] = "{"
    /\ s[Len(s)] = "}"
    /\ LET b == SubSeq(s, 2, Len(s) - 1)
       IN  \/ b = <<>>
           \/ b = <<"m">>
           \/ Len(b) >= 3 /\ b[1] = "n" /\ IsJsonObject(SubSeq(b, 2, Len(b)))
           \/ Len(b) >= 4 /\ b[1] = "m" /\ b[2] = "n" /\ IsJsonObject(SubSeq(b, 3, Len(b)))

\* the length of raw_response (response.substring(0, 500))
RawResponseLength == 500

\* response.substring(0, 500)
Substring(text) ==
    [tokens |-> Slice(text.tokens, RawResponseLength),
     tail   |-> IF Len(text.tokens) >= RawResponseLength THEN 0
                ELSE IF text.tail < RawResponseLength - Len(text.tokens)
                     THEN text.tail
                     ELSE RawResponseLength - Len(text.tokens)]

Fallback(error, text) ==
    [kind |-> "fallback", threw |-> FALSE, error |-> error,
     raw_response |-> Substring(text)]

\* response.match(/\{[\s\S]*\}/): from the first opening brace that has a
\* closing brace after it to the last closing brace of the text; <<>> when
\* there is no match
BraceMatch(s) ==
    LET opens == {i \in 1..Len(s) : s[i] = "{" /\ \E j \in (i + 1)..Len(s) : s[j] = "}"}
    IN  IF opens = {} THEN <<>>
        ELSE LET i == CHOOSE x \in opens : \A y \in opens : x <= y
                 j == MaxOf({x \in 1..Len(s) : s[x] = "}"})
             IN  SubSeq(s, i, j)

\* CodeAnalyzer._parseJsonResponse (lines 310-329).  On a response that is
\* not a string, response.match throws inside the try and response.substring
\* throws again inside the catch.
ParseJsonResponse(text) ==
    IF ~text.isString THEN [kind |-> "threw", threw |-> TRUE]
    ELSE LET jsonMatch == BraceMatch(text.tokens)
         IN  IF jsonMatch = <<>> THEN Fallback("Could not parse response", text)
             ELSE IF IsJsonObject(jsonMatch)
             THEN [kind |-> "parsed", threw |-> FALSE, value |-> jsonMatch]
             ELSE Fallback("JSON parse error", text)

\* _parseJsonResponse(response)
ParseJson(text) ==
    /\ probe = NoValue
    /\ probe' = [fn |-> "parse", input |-> text,
                 output |-> ParseJsonResponse(text)]
    /\ UNCHANGED <<envVars, clientVars, walkVars, contentVars, analysisVars,
                   uploadVars, pc, steps, failedStep, outcome, response, calls>>

\* URLs put to extractRepoInfo: a scheme or nothing, a host, then up to
\* three segments
UrlSchemes == {<<>>, <<"h","t","t","p","s",":","/","/">>, <<"g","i","t","@">>}
UrlHosts   == {<<"g","i","t","h","u","b",".","c","o","m">>, <<"g","i","t","l","a","b",".","c","o","m">>, <<"g","i","t","h","u","b",".","c","o","m","/","g","i","t","h","u","b",".","c","o","m">>}
UrlOwners  == {<<>>, <<"/">>, <<"/","a","c","m","e">>}
UrlNames   == {<<>>, <<"/">>, <<"/","a","p","p">>, <<"/","a","p","p",".","g","i","t">>, <<"/",".","g","i","t">>, <<"/","a","p","p",".","g","i","t",".","g","i","t">>,
               <<"/","a","p","p","?","a","=","b">>}
UrlRests   == {<<>>, <<"/">>, <<"/","t","r","e","e","/","m","a","i","n">>}

ProbeUrls ==
    {s \o h \o o \o n \o r :
        s \in UrlSchemes, h \in UrlHosts, o \in UrlOwners, n \in UrlNames, r \in UrlRests}
    \cup GithubUrls

\* extractRepoInfo(githubUrl)
ExtractInfo(url) ==
    /\ probe = NoValue
    /\ probe' = [fn |-> "extract", input |-> url, output |-> ExtractRepoInfo(url)]
    /\ UNCHANGED <<envVars, clientVars, walkVars, contentVars, analysisVars,
                   uploadVars, pc, steps, failedStep, outcome, response, calls>>

\* _loadGitignore() on a repository with the given .gitignore
LoadIgnore(gi) ==
    /\ probe = NoValue
    /\ probe' = [fn |-> "gitignore", input |-> gi, output |-> LoadGitignore(gi)]
    /\ UNCHANGED <<envVars, clientVars, walkVars, contentVars, analysisVars,
                   uploadVars, pc, steps, failedStep, outcome, response, calls>>

FunctionInit ==
    /\ gitignoreFile = [exists |-> FALSE, readable |-> FALSE, lines |-> <<>>]
    /\ fs = EmptyTree
    /\ event = [body |-> "none", has_url |-> TRUE, github_url |-> U_good,
                upload_to_s3 |-> FALSE, bucket |-> TRUE]
    /\ InitProgram

FunctionNext ==
    \/ \E filePath \in ScorePaths : ScoreFile(filePath)
    \/ \E r \in Responses : ParseJson(r)
    \/ \E url \in ProbeUrls : ExtractInfo(url)
    \/ \E gi \in GitignoreFiles : LoadIgnore(gi)

FunctionSpec == FunctionInit /\ [][FunctionNext]_vars

(***************************************************************************)
(* Spec: one invocation of the handler.                                    *)
(***************************************************************************)
HandlerTrees == {ScenarioTree, NestedTree}

HandlerGitignores == {gi \in GitignoreFiles : gi.exists => (gi.readable /\ Len(gi.lines) = 3 /\ gi.lines[2] = <<>>)}

Init ==
    /\ \E tree \in HandlerTrees, gi \in HandlerGitignores :
          /\ gitignoreFile = gi
          /\ fs = WithGitignore(tree, gi)
    /\ event \in Events
    /\ InitProgram

Next ==
    \/ HandlerStart
    \/ CloneSucceeds
    \/ CloneFails
    \/ StructureWalk
    \/ RankingWalk
    \/ ReadNext
    \/ AnalyzeStart
    \/ \E t \in AnalysisNames, ok \in BOOLEAN : TaskCompletes(t, ok)
    \/ AnalyzeSettle
    \/ MarkdownSucceeds
    \/ MarkdownFails
    \/ SaveSucceeds
    \/ SaveFails
    \/ \E result \in {"missing", "unreadable", "rejected", "stored"} : UploadFile(result)
    \/ UploadReturns

Spec == Init /\ [][Next]_vars

(***************************************************************************)
(* ClientSpec: a GitHubClient used directly, on every working tree of the  *)
(* model.                                                                  *)
(***************************************************************************)
\* cloneRepository called directly
ClientClone(ok) ==
    /\ pc = "start"
    /\ repoPath = "null"
    /\ repoPath' = "tmp"
    /\ calls' = [calls EXCEPT !["clone"] = @ + 1]
    /\ disk' = IF ok THEN "cloned" ELSE "empty"
    /\ clientError' = IF ok THEN <<>> ELSE <<"Failed to clone repository: ", "git">>
    /\ UNCHANGED <<envVars, unitVars, walkVars, contentVars, analysisVars, uploadVars,
                   pc, steps, failedStep, outcome, response>>

\* getFileStructure called directly
ClientGetFileStructure ==
    /\ pc = "start"
    /\ IF repoPath = "null"
       THEN /\ clientError' = <<"Repository not cloned yet">>
            /\ UNCHANGED walkVars
       ELSE LET r == GetFileStructure(DiskTree, DiskGitignore)
            IN  /\ fileStructure' = r.result
                /\ lastWalk' = r.walk
                /\ walkedDisk' = disk
                /\ previousStructure' = PreviousOnSameDisk
                /\ clientError' = <<>>
    /\ UNCHANGED <<envVars, unitVars, repoPath, disk, contentVars, analysisVars, uploadVars,
                   pc, steps, failedStep, outcome, response, calls>>

\* getMainFiles called directly
ClientGetMainFiles ==
    /\ pc = "start"
    /\ IF repoPath = "null"
       THEN /\ clientError' = <<"Repository not cloned yet">>
            /\ UNCHANGED <<mainFiles, rankedDisk, rankedFiles>>
       ELSE /\ LET r == GetMainFiles(DiskTree, DiskGitignore)
               IN  /\ mainFiles' = r.result
                   /\ rankedFiles' = PathsOf(r.walk.files)
            /\ rankedDisk' = disk
            /\ clientError' = <<>>
    /\ UNCHANGED <<envVars, unitVars, repoPath, disk, walkVars, fileContents, readIndex, readLog,
                   analysisVars, uploadVars, pc, steps, failedStep, outcome,
                   response, calls>>

\* calls of cleanup a client of the model receives
MaxCleanups == 1

\* GitHubClient.cleanup: removes the directory at repoPath when repoPath is
\* set; repoPath itself is left as it is
ClientCleanup ==
    /\ pc = "start"
    /\ calls["cleanup"] < MaxCleanups
    /\ calls' = [calls EXCEPT !["cleanup"] = @ + 1]
    /\ disk' = IF repoPath # "null" THEN "none" ELSE disk
    /\ UNCHANGED <<envVars, unitVars, repoPath, clientError, walkVars, contentVars, analysisVars,
                   uploadVars, pc, steps, failedStep, outcome, response>>

ClientInit ==
    /\ \E tree \in WorkingTrees, gi \in GitignoreFiles :
          /\ gitignoreFile = gi
          /\ fs = WithGitignore(tree, gi)
    /\ event = [body |-> "none", has_url |-> TRUE, github_url |-> U_good,
                upload_to_s3 |-> FALSE, bucket |-> TRUE]
    /\ InitProgram

ClientNext ==
    \/ \E ok \in BOOLEAN : ClientClone(ok)
    \/ ClientGetFileStructure
    \/ ClientGetMainFiles
    \/ ClientCleanup

ClientSpec == ClientInit /\ [][ClientNext]_vars

(***************************************************************************)
(* ContentSpec: readFileContent called directly on a client.               *)
(***************************************************************************)
ContentTrees == {ScenarioTree, NestedTree, AssetsTree}

\* paths that are not in any tree: one of each binary extension, and a
\* source file
MissingPaths == {<<<<"x">> \o ext>> : ext \in BinaryExts} \cup {<<N_gone_py>>}

\* the maxSize arguments of the model
MaxSizes == {0, 200, MaxFileSize}

\* readFileContent called directly
ClientReadFileContent(filePath, maxSize) ==
    /\ pc = "start"
    /\ IF repoPath = "null"
       THEN /\ clientError' = <<"Repository not cloned yet">>
            /\ readLog' = <<ReadRecord(filePath, maxSize, disk, Null, TRUE)>>
       ELSE /\ clientError' = <<>>
            /\ readLog' = <<ReadRecord(filePath, maxSize, disk,
                                       ReadFileContent(DiskTree, filePath, maxSize),
                                       FALSE)>>
    /\ UNCHANGED <<envVars, unitVars, repoPath, disk, walkVars, mainFiles, rankedDisk, rankedFiles,
                   fileContents, readIndex, analysisVars, uploadVars, pc, steps,
                   failedStep, outcome, response, calls>>

ContentInit ==
    /\ gitignoreFile = [exists |-> FALSE, readable |-> FALSE, lines |-> <<>>]
    /\ fs \in ContentTrees
    /\ event = [body |-> "none", has_url |-> TRUE, github_url |-> U_good,
                upload_to_s3 |-> FALSE, bucket |-> TRUE]
    /\ InitProgram

ContentNext ==
    \/ \E ok \in BOOLEAN : ClientClone(ok)
    \/ ClientCleanup
    \/ \E filePath \in (DOMAIN fs \ {Root}) \cup MissingPaths, maxSize \in MaxSizes :
           ClientReadFileContent(filePath, maxSize)

ContentSpec == ContentInit /\ [][ContentNext]_vars

(***************************************************************************)
(* What a walk has to find, stated on the tree without walking it.         *)
(***************************************************************************)
Prefixes(p) == {SubSeq(p, 1, k) : k \in 1..Len(p)}

Parent(p) == SubSeq(p, 1, Len(p) - 1)

IndexIn(items, name) == CHOOSE i \in 1..Len(items) : items[i] = name

\* the tree and the matcher of the last walk
WalkedTree == DiskTreeOf(walkedDisk)

ActiveIgnore == LoadGitignore(DiskGitignoreOf(walkedDisk))

\* the path or one of the directories above it is excluded by the matcher
Excluded(ig, p) == \E q \in Prefixes(p) : Ignores(ig, q)

\* the loop of the parent directory gets to the entry p: every directory
\* above p is listed, entered and not left by a failing stat before the
\* component of p comes up
Reached(tree, ig, p) ==
    \A k \in 1..Len(p) :
        LET q   == SubSeq(p, 1, k)
            d   == Parent(q)
            idx == IndexIn(tree[d].items, q[k])
        IN  /\ tree[d].listOk
            /\ \A j \in 1..(idx - 1) :
                   LET s == Append(d, tree[d].items[j])
                   IN  tree[s].statOk \/ Ignores(ig, s)
            /\ k < Len(p) =>
                   /\ tree[q].statOk
                   /\ tree[q].kind = "dir"
                   /\ ~Ignores(ig, q)

\* the non-ignored regular files the walk comes across
FoundFiles(tree, ig) ==
    {p \in DOMAIN tree \ {Root} :
        /\ tree[p].kind = "file"
        /\ tree[p].statOk
        /\ ~Ignores(ig, p)
        /\ Reached(tree, ig, p)}

\* depth-first encounter order of two different files: decided in the
\* directory where their paths part, by the order of its listing
Before(tree, p, q) ==
    LET k == CHOOSE n \in 1..Len(p) :
                 /\ n <= Len(q)
                 /\ p[n] # q[n]
                 /\ SubSeq(p, 1, n - 1) = SubSeq(q, 1, n - 1)
        d == SubSeq(p, 1, k - 1)
    IN  IndexIn(tree[d].items, p[k]) < IndexIn(tree[d].items, q[k])

Min(a, b) == IF a < b THEN a ELSE b

Walked == fileStructure # NoValue

RecordedPaths == {lastWalk.files[i].path : i \in 1..Len(lastWalk.files)}

Unlistable(tree) ==
    {d \in Directories(tree) : ~tree[d].listOk \/ ~tree[d].statOk}

\* C8: when the only failures of a walk are directories that cannot be
\* listed, every non-ignored regular file outside those directories is
\* recorded.
C8_UnlistableDirectorySkipped ==
    (Walked /\ \A p \in DOMAIN WalkedTree : ~WalkedTree[p].statOk => WalkedTree[p].kind = "dir")
    => LET ig == ActiveIgnore
           tree == WalkedTree
           unlistable == Unlistable(tree)
       IN  \A p \in DOMAIN tree :
               ( /\ tree[p].kind = "file"
                 /\ \A q \in Prefixes(p) \cup {Root} : q \notin unlistable
                 /\ ~Excluded(ig, p) )
               => p \in RecordedPaths

\* C9: total_files is the number of all non-ignored regular files the walk
\* finds; files holds the first min(100, total_files) of them, in depth-first
\* encounter order.
C9_TotalUncappedFilesCapped ==
    Walked =>
        LET tree   == WalkedTree
            found  == FoundFiles(tree, ActiveIgnore)
            fl     == fileStructure.files
            listed == {fl[i].path : i \in 1..Len(fl)}
        IN  /\ fileStructure.total_files = Cardinality(found)
            /\ Len(fl) = Min(StructureCap, fileStructure.total_files)
            /\ Len(fl) <= StructureCap
            /\ Len(fl) <= fileStructure.total_files
            /\ listed \subseteq found
            /\ Cardinality(listed) = Len(fl)
            /\ \A i \in 1..(Len(fl) - 1) : Before(tree, fl[i].path, fl[i + 1].path)
            /\ \A p \in found \ listed :
                   \A i \in 1..Len(fl) : Before(tree, fl[i].path, p)

\* C9: a walk found more files than the cap
C9_Witness ==
    /\ Walked
    /\ fileStructure.total_files > StructureCap
    /\ Len(fileStructure.files) = StructureCap

Labels == {LangMap[e] : e \in DOMAIN LangMap}

\* the files among found whose lowercased extension the table maps to the
\* label
FilesOfLanguage(found, label) ==
    {p \in found :
        LET ext == ToLowerCase(ExtName(BaseName(p)))
        IN  ext \in DOMAIN LangMap /\ LangMap[ext] = label}

RECURSIVE SumOver(_, _)
SumOver(f, S) ==
    IF S = {} THEN 0
    ELSE LET x == CHOOSE y \in S : TRUE IN f[x] + SumOver(f, S \ {x})

\* C10: the histogram counts, per language, the files of the whole walk whose
\* extension maps to it; present counts are at least 1, other extensions are
\* not counted, and the counts sum to at most total_files.
C10_HistogramCountsRecognized ==
    Walked =>
        LET langs == fileStructure.languages
            found == FoundFiles(WalkedTree, ActiveIgnore)
        IN  /\ DOMAIN langs \subseteq Labels
            /\ \A l \in DOMAIN langs : langs[l] >= 1
            /\ \A l \in Labels :
                   Cardinality(FilesOfLanguage(found, l))
                       = (IF l \in DOMAIN langs THEN langs[l] ELSE 0)
            /\ SumOver(langs, DOMAIN langs) <= fileStructure.total_files

\* C10: a language counted beyond the cap of the files view, next to a file
\* of no language
C10_Witness ==
    /\ Walked
    /\ "JavaScript" \in DOMAIN fileStructure.languages
    /\ fileStructure.languages["JavaScript"] > StructureCap
    /\ SumOver(fileStructure.languages, DOMAIN fileStructure.languages)
           < fileStructure.total_files

(***************************************************************************)
(* Claims about the ranking, checked under ClientSpec.                     *)
(***************************************************************************)
\* the tree and the matcher of the last ranking
RankedTree == DiskTreeOf(rankedDisk)

RankedIgnore == LoadGitignore(DiskGitignoreOf(rankedDisk))

RankedPaths == {mainFiles[i] : i \in 1..Len(mainFiles)}

\* C11: the ranked list has length min(20, n), is sorted by non-increasing
\* score, holds only paths of the input and none twice, and every path left
\* out scores at most as much as every path returned.
C11_RankedIsSortedPrefix ==
    LET found == FoundFiles(RankedTree, RankedIgnore)
        n     == Cardinality(found)
    IN  /\ Len(mainFiles) = Min(MainFilesCap, n)
        /\ \A i \in 1..(Len(mainFiles) - 1) :
               GetFileImportance(mainFiles[i]) >= GetFileImportance(mainFiles[i + 1])
        /\ RankedPaths \subseteq found
        /\ Cardinality(RankedPaths) = Len(mainFiles)
        /\ \A p \in found \ RankedPaths :
               GetFileImportance(p) <= GetFileImportance(mainFiles[Len(mainFiles)])

\* C11: a ranking that cut the list, with two different scores in it
C11_Witness ==
    /\ Len(mainFiles) = MainFilesCap
    /\ Cardinality(FoundFiles(RankedTree, RankedIgnore)) > MainFilesCap
    /\ GetFileImportance(mainFiles[1]) > GetFileImportance(mainFiles[MainFilesCap])

\* C12: two ranked paths of equal score are in encounter order, and a path
\* left out that scores as much as a ranked one was encountered after it.
C12_TiesInEncounterOrder ==
    LET tree  == RankedTree
        found == FoundFiles(tree, RankedIgnore)
    IN  /\ \A i, j \in 1..Len(mainFiles) :
               (i < j /\ GetFileImportance(mainFiles[i]) = GetFileImportance(mainFiles[j]))
               => Before(tree, mainFiles[i], mainFiles[j])
        /\ \A p \in found \ RankedPaths : \A i \in 1..Len(mainFiles) :
               GetFileImportance(p) = GetFileImportance(mainFiles[i])
               => Before(tree, mainFiles[i], p)

\* C12: the cut fell between two paths of equal score
C12_Witness ==
    /\ Len(mainFiles) = MainFilesCap
    /\ GetFileImportance(mainFiles[MainFilesCap - 1]) = GetFileImportance(mainFiles[MainFilesCap])
    /\ \E p \in FoundFiles(RankedTree, RankedIgnore) \ RankedPaths :
           GetFileImportance(p) = GetFileImportance(mainFiles[MainFilesCap])

\* C14: README.md at the root of a repository with more candidate files
\* than the ranked list holds scores 100 and is in the ranked list.
C14_RootReadmeRanked ==
    LET found == FoundFiles(RankedTree, RankedIgnore)
    IN  (<<N_README_md>> \in found /\ Cardinality(found) > MainFilesCap)
        => /\ GetFileImportance(<<N_README_md>>) = 100
           /\ <<N_README_md>> \in RankedPaths

BothWalked == Walked /\ rankedDisk = walkedDisk /\ rankedDisk # "none"

\* C24: on an unchanged tree the sequence getMainFiles sorts has total_files
\* paths, its first 100 are the paths of the structure view in order, and the
\* ranked list is drawn from all of them: no path of the sequence that was
\* left out scores more than a ranked one.
C24_RankingWalkUncapped ==
    BothWalked =>
        /\ Len(rankedFiles) = fileStructure.total_files
        /\ Slice(rankedFiles, StructureCap) = PathsOf(fileStructure.files)
        /\ RankedPaths \subseteq {rankedFiles[i] : i \in 1..Len(rankedFiles)}
        /\ Len(mainFiles) = Min(MainFilesCap, Len(rankedFiles))
        /\ \A i \in 1..Len(rankedFiles) :
               rankedFiles[i] \notin RankedPaths
               => GetFileImportance(rankedFiles[i])
                      <= GetFileImportance(mainFiles[Len(mainFiles)])

\* C24: a path met after the first 100 is in the ranked list
C24_Witness ==
    /\ BothWalked
    /\ Len(rankedFiles) > StructureCap
    /\ \E i \in (StructureCap + 1)..Len(rankedFiles) : rankedFiles[i] \in RankedPaths

\* C25: on a client that was never cloned, and on a client whose clone
\* failed, getFileStructure and getMainFiles fail with "Repository not cloned
\* yet": nothing was walked and nothing was ranked.
C25_ClonedOnlyAfterSuccess ==
    disk \in {"none", "empty"} /\ calls["cleanup"] = 0 =>
        /\ fileStructure = NoValue
        /\ walkedDisk = "none"
        /\ rankedDisk = "none"
        /\ clientError \in {<<>>, <<"Repository not cloned yet">>,
                              <<"Failed to clone repository: ", "git">>}

\* C26: a failing stat leaves out the entry it fails on and nothing else:
\* every regular file that is not ignored, can be stat-ed and lies under
\* directories that can be stat-ed, listed and are not ignored, is recorded,
\* and total_files counts these files.
C26_StatFailureSkipsOneEntry ==
    (Walked /\ \A d \in Directories(WalkedTree) : WalkedTree[d].listOk) =>
        LET ig   == ActiveIgnore
            tree == WalkedTree
            expected ==
                {p \in DOMAIN tree \ {Root} :
                    /\ tree[p].kind = "file"
                    /\ \A q \in Prefixes(p) : tree[q].statOk /\ ~Ignores(ig, q)}
        IN  /\ expected \subseteq RecordedPaths
            /\ fileStructure.total_files = Cardinality(expected)

(***************************************************************************)
(* Claims about single functions, checked under FunctionSpec.              *)
(***************************************************************************)
\* the characters after the last dot of a name, when that dot is not the
\* first character; otherwise nothing
Suffix(name) ==
    LET dots == {i \in 2..Len(name) : name[i] = "."}
    IN  IF dots = {} THEN <<>>
        ELSE SubSeq(name, MaxOf(dots) + 1, Len(name))

\* the score the table of the specification gives a lowercased name
TableScore(name) ==
    CASE name \in {<<"r","e","a","d","m","e",".","m","d">>,
                   <<"r","e","a","d","m","e",".","t","x","t">>,
                   <<"r","e","a","d","m","e">>} -> 100
      [] name \in {<<"p","a","c","k","a","g","e",".","j","s","o","n">>,
                   <<"r","e","q","u","i","r","e","m","e","n","t","s",".","t","x","t">>,
                   <<"s","e","t","u","p",".","p","y">>} -> 90
      [] name \in {<<"i","n","d","e","x",".","j","s">>,
                   <<"m","a","i","n",".","p","y">>,
                   <<"a","p","p",".","p","y">>,
                   <<"s","e","r","v","e","r",".","j","s">>} -> 80
      [] OTHER ->
           LET sfx == Suffix(name)
           IN  CASE sfx \in {<<"j","s">>, <<"p","y">>, <<"t","s">>} -> 70
                 [] sfx \in {<<"j","s","o","n">>, <<"y","a","m","l">>, <<"y","m","l">>} -> 60
                 [] sfx = <<"m","d">> -> 50
                 [] sfx = <<"t","x","t">> -> 40
                 [] sfx = <<"h","t","m","l">> -> 30
                 [] sfx = <<"c","s","s">> -> 20
                 [] OTHER -> 10

\* C13: every path gets the one score of the first rule that matches its
\* lowercased basename or extension; a name rule overrides the extension
\* rule and the score is one of 10, 20, ..., 100.
C13_FirstMatchScore ==
    (probe # NoValue /\ probe.fn = "importance") =>
        /\ probe.output = TableScore(ToLowerCase(BaseName(probe.input)))
        /\ probe.output \in {10, 20, 30, 40, 50, 60, 70, 80, 90, 100}

\* C13: README.md was scored by its name, not by its extension
C13_Witness ==
    /\ probe # NoValue
    /\ probe.fn = "importance"
    /\ BaseName(probe.input) = N_README_md
    /\ probe.output = 100

\* the first top-level object of a text: from its first opening brace to the
\* closing brace that balances it; <<>> when there is none
Depth(s, i, j) ==
    Cardinality({x \in i..j : s[x] = "{"}) - Cardinality({x \in i..j : s[x] = "}"})

FirstObject(s) ==
    LET opens == {i \in 1..Len(s) : s[i] = "{"}
    IN  IF opens = {} THEN <<>>
        ELSE LET i    == CHOOSE x \in opens : \A y \in opens : x <= y
                 ends == {j \in (i + 1)..Len(s) : Depth(s, i, j) = 0}
             IN  IF ends = {} THEN <<>>
                 ELSE SubSeq(s, i, CHOOSE x \in ends : \A y \in ends : x <= y)

\* C20: for a text answer, _parseJsonResponse does not throw; it returns the
\* parsed first top-level object of the text when there is one and it is
\* well-formed, whatever follows it, and otherwise the fallback with an error
\* and the first 500 characters of the text.
C20_FirstObjectParsed ==
    (probe # NoValue /\ probe.fn = "parse" /\ probe.input.isString) =>
        LET first == FirstObject(probe.input.tokens)
            total == Len(probe.input.tokens) + probe.input.tail
        IN  /\ ~probe.output.threw
            /\ IF first # <<>> /\ IsJsonObject(first)
               THEN /\ probe.output.kind = "parsed"
                    /\ probe.output.value = first
               ELSE /\ probe.output.kind = "fallback"
                    /\ probe.output.error \in {"Could not parse response", "JSON parse error"}
                    /\ Len(probe.output.raw_response.tokens)
                           + probe.output.raw_response.tail = Min(RawResponseLength, total)

\* the ways to read github.com/<owner>/<name> in a URL: where the host
\* starts, where the owner ends, where the name ends; owner and name are
\* non-empty, hold no "/" and end at a "/" or at the end of the URL
Readings(url) ==
    {r \in (1..Len(url)) \X (1..Len(url)) \X (1..Len(url)) :
        LET i == r[1]
            j == r[2]
            k == r[3]
            o == i + Len(HostNeedle)
        IN  /\ o <= j /\ j + 2 <= k
            /\ SubSeq(url, i, o - 1) = HostNeedle
            /\ url[j + 1] = "/"
            /\ \A x \in (o..j) \cup ((j + 2)..k) : url[x] # "/"
            /\ k = Len(url) \/ url[k + 1] = "/"}

\* a name without one trailing ".git"
WithoutDotGit(name) ==
    IF Len(name) >= 4 /\ SubSeq(name, Len(name) - 3, Len(name)) = <<".","g","i","t">>
    THEN SubSeq(name, 1, Len(name) - 4)
    ELSE name

\* C21: for a URL that holds github.com/<owner>/<name>, extractRepoInfo
\* returns the two segments after the first such host, the name without one
\* trailing ".git"; for any other URL it fails with "Failed to extract repo
\* info: Invalid GitHub URL format" and returns nothing.
C21_OwnerAndName ==
    (probe # NoValue /\ probe.fn = "extract") =>
        LET url == probe.input
            rs  == Readings(url)
        IN  IF rs = {}
            THEN /\ ~probe.output.ok
                 /\ probe.output.error
                        = <<"Failed to extract repo info: ", "Invalid GitHub URL format">>
                 /\ DOMAIN probe.output = {"ok", "error"}
            ELSE LET r == CHOOSE x \in rs : \A y \in rs : x[1] <= y[1]
                 IN  /\ probe.output.ok
                     /\ probe.output.owner
                            = SubSeq(url, r[1] + Len(HostNeedle), r[2])
                     /\ probe.output.repoName
                            = WithoutDotGit(SubSeq(url, r[2] + 2, r[3]))

\* C21: a URL whose name ends in ".git" was taken apart
C21_Witness ==
    /\ probe # NoValue
    /\ probe.fn = "extract"
    /\ probe.output.ok
    /\ probe.output.owner = <<"a","c","m","e">>
    /\ probe.output.repoName = <<"a","p","p">>
    /\ probe.input[Len(probe.input)] = "t"

\* the default patterns of the specification
EightDefaults ==
    << <<".","g","i","t">>,
       <<"n","o","d","e","_","m","o","d","u","l","e","s">>,
       <<"_","_","p","y","c","a","c","h","e","_","_">>,
       <<"*",".","p","y","c">>,
       <<".","D","S","_","S","t","o","r","e">>,
       <<"*",".","l","o","g">>,
       <<"d","i","s","t">>,
       <<"b","u","i","l","d">> >>

\* a rule written back as the line of an ignore file
RuleText(rule) ==
    (IF rule.negative THEN <<"!">> ELSE <<>>)
    \o rule.glob
    \o (IF rule.dirOnly THEN <<"/">> ELSE <<>>)

\* the lines of an ignore file that are neither blank nor comments, in order
PatternLines(lines) ==
    LET Stated(line) == line # <<>> /\ line[1] # "#" /\ line # <<" ">>
    IN  SelectSeq(lines, Stated)

\* C23: the matcher starts with the eight default patterns; without a
\* .gitignore, or with one that cannot be read, it holds nothing else; with a
\* readable one its patterns follow the defaults, in the order of the file.
C23_DefaultsAlwaysLoaded ==
    (probe # NoValue /\ probe.fn = "gitignore") =>
        LET rules == probe.output
            gi    == probe.input
            own   == IF gi.exists /\ gi.readable THEN PatternLines(gi.lines) ELSE <<>>
        IN  /\ Len(rules) = 8 + Len(own)
            /\ \A i \in 1..8 : RuleText(rules[i]) = EightDefaults[i]
            /\ \A i \in 1..Len(own) : RuleText(rules[8 + i]) = own[i]

\* C23: the matcher of a repository whose .gitignore exists and cannot be
\* read
C23_Witness ==
    /\ probe # NoValue
    /\ probe.fn = "gitignore"
    /\ probe.input.exists
    /\ ~probe.input.readable
    /\ Len(probe.output) = 8

(***************************************************************************)
(* Claims about the content loader, checked under ContentSpec.             *)
(***************************************************************************)
\* the extensions of the specification's binary set, without the dot
BinarySuffixes ==
    {<<"j","p","g">>, <<"j","p","e","g">>, <<"p","n","g">>, <<"g","i","f">>,
     <<"b","m","p">>, <<"i","c","o">>, <<"p","d","f">>, <<"z","i","p">>,
     <<"t","a","r">>, <<"g","z">>, <<"r","a","r">>, <<"e","x","e">>,
     <<"d","l","l">>, <<"s","o">>, <<"d","y","l","i","b">>, <<"m","p","3">>,
     <<"m","p","4">>, <<"a","v","i">>, <<"m","o","v">>}

HasBinarySuffix(filePath) == Suffix(ToLowerCase(BaseName(filePath))) \in BinarySuffixes

\* C15: on a cloned client, a call of readFileContent for a path whose
\* lowercased extension is in the binary set returns null, whatever the
\* size of the file and whether or not it exists.
C15_BinaryIsAbsent ==
    \A i \in 1..Len(readLog) :
        (HasBinarySuffix(readLog[i].path) /\ ~readLog[i].threw)
        => readLog[i].content = Null

\* C15: a binary file that exists, can be read and is not above maxSize was
\* put to readFileContent, its extension written in capitals
C15_Witness ==
    /\ Len(readLog) = 1
    /\ ~readLog[1].threw
    /\ readLog[1].disk = "cloned"
    /\ readLog[1].path = <<N_LOGO_PNG>>
    /\ readLog[1].path \in DOMAIN fs
    /\ fs[readLog[1].path].size <= readLog[1].maxSize
    /\ fs[readLog[1].path].readOk
    /\ readLog[1].content = Null

(***************************************************************************)
(* Claims about the handler, checked under Spec.                           *)
(***************************************************************************)
\* C1: a request that reaches cloneRepository (and gets its temporary
\* directory) has GitHubClient.cleanup invoked exactly once by the time the
\* handler returns.
C1_CleanupExactlyOnce ==
    (outcome = "returned" /\ repoPath = "tmp"
        /\ \E i \in 1..Len(steps) : steps[i] = "clone")
    => calls["cleanup"] = 1

\* github_url is missing, does not match github.com/<owner>/<name>, or is not
\* something git can clone
MalformedUrl(e) ==
    \/ ~e.has_url
    \/ e.github_url = <<>>
    \/ ~MatchesGithubPattern(e.github_url)
    \/ e.github_url \notin ClonableUrls

\* C3: a request whose github_url is missing or malformed is answered with a
\* 400-class response, never with a 500-class one (the body parses, a bucket
\* is configured and the temporary directory can be made, so nothing else is
\* wrong with the request).
C3_MalformedInputIs400 ==
    (outcome = "returned" /\ event.body # "malformed" /\ event.bucket
        /\ (failedStep = "clone" => repoPath = "tmp")
        /\ MalformedUrl(event))
    => response.statusCode \in 400..499

ResultFields == {"repository", "analysis", "s3_urls", "tutorial_content"}

\* C4: the handler never throws; once a step has failed the handler has
\* returned, the failing step is the last one started, and the response is an
\* error response without any result field.
C4_FailureAborts ==
    /\ outcome # "threw"
    /\ failedStep # "none" =>
          /\ pc = "done"
          /\ outcome = "returned"
          /\ IF failedStep = "init" THEN steps = <<>>
             ELSE steps # <<>> /\ steps[Len(steps)] = failedStep
          /\ response.success = FALSE
          /\ response.statusCode >= 400
          /\ response.error # <<>>
          /\ response.fields \cap ResultFields = {}

\* C4: the upload failed on the second file, after the analysis had succeeded
\* and the first file had been stored
C4_Witness ==
    /\ failedStep = "upload"
    /\ uploaded = {"markdown"}
    /\ analysisResults # NoValue
    /\ response.statusCode = 500

\* C5: the four analysis calls are issued together; the joint operation
\* yields a result only when all four succeeded; as soon as one fails it is
\* rejected, no result is produced, and the handler's error starts with
\* "Analysis failed: ".
C5_JointAnalysis ==
    /\ (\E t \in AnalysisNames : tasks[t] # "idle")
          => \A t \in AnalysisNames : tasks[t] # "idle" /\ calls[t] = 1
    /\ joint = "fulfilled" => \A t \in AnalysisNames : tasks[t] = "ok"
    /\ analysisResults # NoValue =>
          /\ \A t \in AnalysisNames : tasks[t] = "ok"
          /\ analysisResults.parts = AnalysisNames
    /\ (\E t \in AnalysisNames : tasks[t] = "failed") =>
          /\ joint = "rejected"
          /\ analysisResults = NoValue
          /\ pc = "done" =>
                /\ failedStep = "analysis"
                /\ response.error[1] = "Analysis failed: "
                /\ response.fields \cap ResultFields = {}

\* C5: three calls succeeded, the fourth failed, and the handler has answered
C5_Witness ==
    /\ pc = "done"
    /\ Cardinality({t \in AnalysisNames : tasks[t] = "ok"}) = 3
    /\ Cardinality({t \in AnalysisNames : tasks[t] = "failed"}) = 1

ErrorPrefix ==
    [clone    |-> <<"Failed to clone repository: ">>,
     analysis |-> <<"Analysis failed: ", "Bedrock invocation failed: ">>,
     markdown |-> <<"Bedrock invocation failed: ">>,
     upload   |-> <<"Failed to upload files to S3: ">>]

\* C6: a clone failure, a model-inference failure and an upload failure reach
\* the caller as statusCode 500, success = false, with the error message
\* carrying the prefix of the component that failed.
C6_CollaboratorErrorsPrefixed ==
    failedStep \in DOMAIN ErrorPrefix =>
        LET prefix == ErrorPrefix[failedStep]
        IN  /\ response.statusCode = 500
            /\ response.success = FALSE
            /\ Len(response.error) = Len(prefix) + 1
            /\ SubSeq(response.error, 1, Len(prefix)) = prefix

\* C6: the put of the second output file was rejected
C6_Witness ==
    /\ failedStep = "upload"
    /\ calls["put_json"] = 1
    /\ response.error = <<"Failed to upload files to S3: ", "put">>

\* C7: within one request the clone, each of the five prompts and the put of
\* each output file happen at most once.
C7_NothingRetried ==
    \A c \in CallNames \ {"cleanup"} : calls[c] <= 1

\* C7: the clone failed and the request is over with one clone attempt
C7_Witness ==
    /\ pc = "done"
    /\ failedStep = "clone"
    /\ calls["clone"] = 1

(***************************************************************************)
(* Claims about the content loop of the handler, checked under Spec.       *)
(***************************************************************************)
\* the content loop is over
LoopDone == pc \notin {"start", "clone", "structure", "ranking", "read"} /\ rankedDisk = "cloned"

\* C16: a call of readFileContent returns null for a file larger than maxSize
\* and the text for a readable, non-binary file of at most maxSize; a file
\* larger than the limit is ranked like any other and is never a key of the
\* content map.
C16_SizeLimit ==
    /\ \A i \in 1..Len(readLog) :
           LET rec  == readLog[i]
               node == fs[rec.path]
           IN  /\ node.size > rec.maxSize => rec.content = Null
               /\ ( /\ node.kind = "file" /\ node.statOk /\ node.readOk
                    /\ ~HasBinarySuffix(rec.path)
                    /\ node.size <= rec.maxSize )
                  => /\ rec.content # Null
                     /\ rec.content.text = rec.path
                     /\ rec.content.length = node.size
    /\ \A p \in Keys(fileContents) : fs[p].size <= MaxFileSize
    /\ rankedDisk = "cloned" =>
           LET found == FoundFiles(RankedTree, RankedIgnore)
           IN  Cardinality(found) <= MainFilesCap => found \subseteq RankedPaths

\* C16: a file above the limit is ranked and was left out of the content
\* map, and a file of exactly the limit is a key of it
C16_Witness ==
    /\ LoopDone
    /\ \E p \in RankedPaths :
           /\ fs[p].size > MaxFileSize
           /\ ~HasBinarySuffix(p)
           /\ p \notin Keys(fileContents)
    /\ \E p \in Keys(fileContents) : fs[p].size = MaxFileSize

\* C17: no call of readFileContent in the loop throws; a file that cannot be
\* read gives null, the loop goes on to the last ranked path, and the request
\* never fails in the content loop.
C17_ReadFailureIsAbsent ==
    /\ \A i \in 1..Len(readLog) :
           /\ ~readLog[i].threw
           /\ readLog[i].path = mainFiles[i]
           /\ ~fs[readLog[i].path].readOk => readLog[i].content = Null
    /\ failedStep # "read"
    /\ LoopDone => Len(readLog) = Len(Slice(mainFiles, ContentCap))

\* C17: a ranked file could not be read, a file ranked after it was loaded,
\* and the request succeeded
C17_Witness ==
    /\ response.statusCode = 200
    /\ \E i, j \in 1..Len(readLog) :
           /\ i < j
           /\ fs[readLog[i].path].kind = "file"
           /\ fs[readLog[i].path].size <= MaxFileSize
           /\ ~fs[readLog[i].path].readOk
           /\ readLog[j].path \in Keys(fileContents)

\* C18: the keys of the content map are among the first 50 ranked paths (at
\* most 20), they were inserted in the order of the ranked list, and each
\* maps to the text readFileContent returned for it.
C18_ContentMapFollowsRanking ==
    LET first == Slice(mainFiles, ContentCap)
    IN  /\ Keys(fileContents) \subseteq {first[i] : i \in 1..Len(first)}
        /\ Len(fileContents) <= MainFilesCap
        /\ Cardinality(Keys(fileContents)) = Len(fileContents)
        /\ \A a, b \in 1..Len(fileContents) :
               a < b => IndexIn(mainFiles, fileContents[a].path)
                          < IndexIn(mainFiles, fileContents[b].path)
        /\ \A a \in 1..Len(fileContents) :
               \E i \in 1..Len(readLog) :
                   /\ readLog[i].path = fileContents[a].path
                   /\ readLog[i].content = fileContents[a].content
                   /\ readLog[i].content # Null

\* C18: the loop is over, the map has several keys and a ranked path between
\* two of them was skipped
C18_Witness ==
    /\ LoopDone
    /\ Len(fileContents) >= 3
    /\ \E a \in 1..(Len(fileContents) - 1) :
           IndexIn(mainFiles, fileContents[a + 1].path)
               > IndexIn(mainFiles, fileContents[a].path) + 1

\* C19: every ranked path for which readFileContent returned text is a key
\* of the content map once its iteration is over, a file whose text is the
\* empty string included.
C19_OnlyAbsentsSkipped ==
    \A i \in 1..Len(readLog) :
        readLog[i].content # Null => readLog[i].path \in Keys(fileContents)

====
